---- MODULE Spec2Model ----
(***************************************************************************)
(* Edge of the code graph (src/lib/data/graph/Edge.cpp): construction,     *)
(* cloning, destruction, component attachment and the schema check of an   *)
(* edge's (kind, from kind, to kind) triple.                               *)
(***************************************************************************)
EXTENDS Integers, Sequences, FiniteSets, TLC

(* ------------------------------ bounds ------------------------------- *)

\* number of Node objects the producer has created
NumNodes == 4
\* number of distinct identity ids the nodes carry (node n has id ((n-1) % NumIds) + 1)
NumIds == 2
\* number of Edge objects that can be alive at once
MaxEdges == 2

Nodes == 1..NumNodes
EdgeIds == 1..MaxEdges

(* --------------------------- vocabularies ---------------------------- *)

NODE_UNDEFINED == "undefined"
NODE_UNDEFINED_FUNCTION == "undefined_function"
NODE_UNDEFINED_VARIABLE == "undefined_variable"
NODE_UNDEFINED_TYPE == "undefined_type"
NODE_STRUCT == "struct"
NODE_CLASS == "class"
NODE_GLOBAL_VARIABLE == "global_variable"
NODE_FIELD == "field"
NODE_FUNCTION == "function"
NODE_METHOD == "method"
NODE_NAMESPACE == "namespace"
NODE_TYPEDEF == "typedef"
NODE_ENUM == "enum"
NODE_TEMPLATE_PARAMETER_TYPE == "template_parameter_type"

\* the closed set of the 14 node kinds
NodeTypes ==
    { NODE_UNDEFINED, NODE_UNDEFINED_FUNCTION, NODE_UNDEFINED_VARIABLE,
      NODE_UNDEFINED_TYPE, NODE_STRUCT, NODE_CLASS, NODE_GLOBAL_VARIABLE,
      NODE_FIELD, NODE_FUNCTION, NODE_METHOD, NODE_NAMESPACE, NODE_TYPEDEF,
      NODE_ENUM, NODE_TEMPLATE_PARAMETER_TYPE }

EDGE_MEMBER == "child"
EDGE_TYPE_OF == "type_use"
EDGE_RETURN_TYPE_OF == "return_type"
EDGE_PARAMETER_TYPE_OF == "parameter_type"
EDGE_TYPE_USAGE == "type_usage"
EDGE_INHERITANCE == "inheritance"
EDGE_OVERRIDE == "override"
EDGE_CALL == "call"
EDGE_USAGE == "usage"
EDGE_TYPEDEF_OF == "typedef"
EDGE_TEMPLATE_PARAMETER_OF == "template parameter"
EDGE_TEMPLATE_ARGUMENT_OF == "template argument"
EDGE_TEMPLATE_DEFAULT_ARGUMENT_OF == "template default argument"
EDGE_TEMPLATE_SPECIALIZATION_OF == "template specialization"
EDGE_AGGREGATION == "aggregation"

\* the closed set of the 15 edge kinds (each named by its getTypeString label)
EdgeTypes ==
    { EDGE_MEMBER, EDGE_TYPE_OF, EDGE_RETURN_TYPE_OF, EDGE_PARAMETER_TYPE_OF,
      EDGE_TYPE_USAGE, EDGE_INHERITANCE, EDGE_OVERRIDE, EDGE_CALL, EDGE_USAGE,
      EDGE_TYPEDEF_OF, EDGE_TEMPLATE_PARAMETER_OF, EDGE_TEMPLATE_ARGUMENT_OF,
      EDGE_TEMPLATE_DEFAULT_ARGUMENT_OF, EDGE_TEMPLATE_SPECIALIZATION_OF,
      EDGE_AGGREGATION }

(* ----------------------- category masks (checkType) ------------------ *)
\* A mask is the set of the kinds whose bits it holds; "|" is set union.

complexTypeMask == { NODE_UNDEFINED_TYPE, NODE_CLASS, NODE_STRUCT }

typeMask_NoTypedef == { NODE_UNDEFINED, NODE_ENUM } \cup complexTypeMask

typeMask == { NODE_UNDEFINED, NODE_ENUM, NODE_TYPEDEF } \cup complexTypeMask

variableMask ==
    { NODE_UNDEFINED, NODE_UNDEFINED_VARIABLE, NODE_GLOBAL_VARIABLE, NODE_FIELD }

functionMask == { NODE_UNDEFINED_FUNCTION, NODE_FUNCTION, NODE_METHOD }

\* Node::isType(mask) applied to a node of kind k: the kind's bit is in the mask
isType(k, mask) == k \in mask

\* Edge::checkType's switch: TRUE where the code returns true, FALSE where it
\* breaks out to the diagnostic and returns false
checkType(type, from, to) ==
    CASE type = EDGE_MEMBER ->
            ~ ( \/ ~isType(from, typeMask \cup {NODE_NAMESPACE})
                \/ ( /\ ~isType(from, {NODE_UNDEFINED, NODE_NAMESPACE})
                     /\ isType(to, {NODE_NAMESPACE}) )
                \/ ( /\ isType(from, {NODE_ENUM})
                     /\ ~isType(to, {NODE_FIELD}) ) )
      [] type = EDGE_TYPE_OF ->
            ~ (~isType(from, variableMask) \/ ~isType(to, typeMask))
      [] type \in {EDGE_RETURN_TYPE_OF, EDGE_PARAMETER_TYPE_OF, EDGE_TYPE_USAGE} ->
            ~ (~isType(from, functionMask) \/ ~isType(to, typeMask))
      [] type = EDGE_INHERITANCE ->
            ~ (~isType(from, complexTypeMask) \/ ~isType(to, complexTypeMask))
      [] type = EDGE_OVERRIDE ->
            ~ ( \/ ~isType(from, {NODE_UNDEFINED_FUNCTION, NODE_METHOD})
                \/ ~isType(to, {NODE_UNDEFINED_FUNCTION, NODE_METHOD}) )
      [] type = EDGE_CALL ->
            ~ ( \/ ~isType(from, variableMask \cup functionMask)
                \/ ~isType(to, functionMask) )
      [] type = EDGE_USAGE ->
            ~ (~isType(from, functionMask) \/ ~isType(to, variableMask))
      [] type = EDGE_TYPEDEF_OF ->
            ~ (~isType(from, {NODE_TYPEDEF}) \/ ~isType(to, typeMask))
      [] type = EDGE_TEMPLATE_PARAMETER_OF ->
            ~ ( \/ ~isType(from, {NODE_TEMPLATE_PARAMETER_TYPE})
                \/ ~isType(to, typeMask \cup functionMask) )
      [] type \in {EDGE_TEMPLATE_ARGUMENT_OF, EDGE_TEMPLATE_DEFAULT_ARGUMENT_OF} ->
            ~ (~isType(from, typeMask) \/ ~isType(to, typeMask))
      [] type = EDGE_TEMPLATE_SPECIALIZATION_OF ->
            ~ ( \/ ~isType(from, typeMask \cup functionMask)
                \/ ~isType(to, typeMask \cup functionMask) )
      [] type = EDGE_AGGREGATION ->
            ~ ( \/ ~isType(from, typeMask \cup variableMask \cup functionMask)
                \/ ~isType(to, typeMask \cup variableMask \cup functionMask) )
      [] OTHER -> FALSE

(* ------------------------------ state -------------------------------- *)

VARIABLES
    nodeType,       \* Node -> its kind (fixed when the node is created)
    m_edges,        \* Node -> the set of edges registered on it (Node's incidence set)
    m_type,         \* live Edge -> its kind
    m_from,         \* live Edge -> its from node
    m_to,           \* live Edge -> its to node
    m_components,   \* live Edge -> the components attached to it, in attachment order
    op,             \* the operation executed last and its arguments:
                    \* [name, edge, other, type, from, to]
    trace           \* what that operation did, in program order: registrations and diagnostics

vars == <<nodeType, m_edges, m_type, m_from, m_to, m_components, op, trace>>

\* the edges constructed and not yet destroyed
live == DOMAIN m_type

\* Node::getId
getId(n) == ((n - 1) % NumIds) + 1

\* Edge::getType, Edge::getFrom, Edge::getTo
getType(e) == m_type[e]

getFrom(e) == m_from[e]

getTo(e) == m_to[e]

Put(f, e, v) == [x \in (DOMAIN f) \cup {e} |-> IF x = e THEN v ELSE f[x]]

Drop(f, e) == [x \in (DOMAIN f) \ {e} |-> f[x]]

\* Node::addEdge / Node::removeEdge on the incidence sets
addEdge(inc, n, e) == [inc EXCEPT ![n] = @ \cup {e}]

removeEdge(inc, n, e) == [inc EXCEPT ![n] = @ \ {e}]

(* --------------------------- trace events ---------------------------- *)

\* the record of a call: the method, the edge it ran on, the source edge of a
\* clone (0 otherwise), and the edge's kind and endpoints as the call saw them
Op(name, e, other, type, from, to) ==
    [name |-> name, edge |-> e, other |-> other, type |-> type, from |-> from, to |-> to]

AddEdgeEv(n) == [ev |-> "addEdge", node |-> n, msg |-> ""]

RemoveEdgeEv(n) == [ev |-> "removeEdge", node |-> n, msg |-> ""]

LogError(m) == [ev |-> "LOG_ERROR", node |-> 0, msg |-> m]

MSG_NOT_PLAIN_COPIES == "Nodes are not plain copies."
MSG_AGGREGATION_SET_BEFORE == "TokenComponentAggregation has been set before!"
MSG_AGGREGATION_WRONG_TYPE == "TokenComponentAggregation can't be set on edge of type"
MSG_ACCESS_SET_BEFORE == "TokenComponentAccess has been set before!"
MSG_ACCESS_WRONG_TYPE == "TokenComponentAccess can't be set on edge of type"
MSG_CANT_GO == "Edge can't go from Node to Node"

\* the diagnostics of a trace, in order
Diagnostics(t) == SelectSeq(t, LAMBDA x : x.ev = "LOG_ERROR")

\* checkType's diagnostic: nothing when it returns true, one report when false
checkTypeEvents_Silent(type, from, to) == << >>

checkTypeEvents(type, from, to) ==
    IF checkType(type, from, to) THEN << >> ELSE << LogError(MSG_CANT_GO) >>

(* --------------------------- components ------------------------------ *)

ACCESS == "TokenComponentAccess"
AGGREGATION == "TokenComponentAggregation"

\* the component objects a producer may hand to an edge
ComponentValues == {1, 2}

Components == [kind : {ACCESS, AGGREGATION}, value : ComponentValues]

\* Token::getComponent<T>: whether a component of kind k is held
hasComponent(comps, k) == \E i \in 1..Len(comps) : comps[i].kind = k

\* Token::addComponent
addComponent(comps, c) == Append(comps, c)

\* Token's copy constructor: the copy holds the same components
TokenCopy(comps) == comps

(* --------------------------- constructors ---------------------------- *)

\* both constructors: m_from->addEdge(this); m_to->addEdge(this);
Register(inc, e, from, to) == addEdge(addEdge(inc, from, e), to, e)

\* the order of the constructor's statements, as seen from outside
ConstructEvents_CheckFirst(type, from, to) ==
    checkTypeEvents(type, nodeType[from], nodeType[to])
        \o << AddEdgeEv(from), AddEdgeEv(to) >>

ConstructEvents(type, from, to) ==
    << AddEdgeEv(from), AddEdgeEv(to) >>
        \o checkTypeEvents(type, nodeType[from], nodeType[to])

\* Edge::Edge(EdgeType type, Node* from, Node* to)
Edge(e, type, from, to) ==
    /\ e \notin live
    /\ m_type' = Put(m_type, e, type)
    /\ m_from' = Put(m_from, e, from)
    /\ m_to' = Put(m_to, e, to)
    /\ m_components' = Put(m_components, e, << >>)
    /\ m_edges' = Register(m_edges, e, from, to)
    /\ trace' = ConstructEvents(type, from, to)
    /\ op' = Op("Edge", e, 0, type, from, to)
    /\ UNCHANGED nodeType

\* the cloning constructor's test that the new nodes are plain copies
notPlainCopies_NoIdCheck(other, from, to) ==
    \/ from = m_from[other]
    \/ to = m_to[other]

notPlainCopies(other, from, to) ==
    \/ from = m_from[other]
    \/ to = m_to[other]
    \/ getId(from) # getId(m_from[other])
    \/ getId(to) # getId(m_to[other])

CloneEvents(other, from, to) ==
    << AddEdgeEv(from), AddEdgeEv(to) >>
        \o (IF notPlainCopies(other, from, to)
            THEN << LogError(MSG_NOT_PLAIN_COPIES) >> ELSE << >>)
        \o checkTypeEvents(m_type[other], nodeType[from], nodeType[to])

\* the members the cloning constructor initialises from the source edge
CloneComponents_Empty(other) == << >>

CloneComponents(other) == TokenCopy(m_components[other])

\* Edge::Edge(const Edge& other, Node* from, Node* to)
EdgeCopy(e, other, from, to) ==
    /\ e \notin live
    /\ other \in live
    /\ m_type' = Put(m_type, e, m_type[other])
    /\ m_from' = Put(m_from, e, from)
    /\ m_to' = Put(m_to, e, to)
    /\ m_components' = Put(m_components, e, CloneComponents(other))
    /\ m_edges' = Register(m_edges, e, from, to)
    /\ trace' = CloneEvents(other, from, to)
    /\ op' = Op("EdgeCopy", e, other, m_type[other], from, to)
    /\ UNCHANGED nodeType

(* ----------------------------- destructor ---------------------------- *)

Unregister_FromOnly(inc, e, from, to) == removeEdge(inc, from, e)

Unregister_Clear(inc, e, from, to) ==
    [inc EXCEPT ![from] = {}, ![to] = {}]

\* m_from->removeEdge(this); m_to->removeEdge(this);
Unregister(inc, e, from, to) == removeEdge(removeEdge(inc, from, e), to, e)

\* Edge::~Edge()
Destroy(e) ==
    /\ e \in live
    /\ m_edges' = Unregister(m_edges, e, m_from[e], m_to[e])
    /\ m_type' = Drop(m_type, e)
    /\ m_from' = Drop(m_from, e)
    /\ m_to' = Drop(m_to, e)
    /\ m_components' = Drop(m_components, e)
    /\ trace' = << RemoveEdgeEv(m_from[e]), RemoveEdgeEv(m_to[e]) >>
    /\ op' = Op("~Edge", e, 0, m_type[e], m_from[e], m_to[e])
    /\ UNCHANGED nodeType

(* ----------------------- component attachment ------------------------ *)

\* which branch of addComponentAggregation is taken on edge e
AggregationBranch_NoSetBeforeCheck(e) ==
    IF m_type[e] # EDGE_AGGREGATION THEN "wrong_type" ELSE "attach"

AggregationBranch(e) ==
    IF hasComponent(m_components[e], AGGREGATION) THEN "set_before"
    ELSE IF m_type[e] # EDGE_AGGREGATION THEN "wrong_type"
    ELSE "attach"

\* a slip that writes the kind where the code compares it
addComponentAggregation_AssignsType(e, c) ==
    /\ e \in live
    /\ c.kind = AGGREGATION
    /\ m_type' = [m_type EXCEPT ![e] = EDGE_AGGREGATION]
    /\ m_components' =
            IF hasComponent(m_components[e], AGGREGATION) THEN m_components
            ELSE [m_components EXCEPT ![e] = addComponent(@, c)]
    /\ trace' =
            IF hasComponent(m_components[e], AGGREGATION)
            THEN << LogError(MSG_AGGREGATION_SET_BEFORE) >> ELSE << >>
    /\ op' = Op("addComponentAggregation", e, 0, m_type[e], m_from[e], m_to[e])
    /\ UNCHANGED <<nodeType, m_edges, m_from, m_to>>

\* Edge::addComponentAggregation(component)
addComponentAggregation(e, c) ==
    /\ e \in live
    /\ c.kind = AGGREGATION
    /\ m_components' =
            IF AggregationBranch(e) = "attach"
            THEN [m_components EXCEPT ![e] = addComponent(@, c)]
            ELSE m_components
    /\ trace' =
            CASE AggregationBranch(e) = "set_before" ->
                    << LogError(MSG_AGGREGATION_SET_BEFORE) >>
              [] AggregationBranch(e) = "wrong_type" ->
                    << LogError(MSG_AGGREGATION_WRONG_TYPE) >>
              [] OTHER -> << >>
    /\ op' = Op("addComponentAggregation", e, 0, m_type[e], m_from[e], m_to[e])
    /\ UNCHANGED <<nodeType, m_edges, m_type, m_from, m_to>>

\* which branch of addComponentAccess is taken on edge e
AccessBranch_NoTypeCheck(e) ==
    IF hasComponent(m_components[e], ACCESS) THEN "set_before" ELSE "attach"

AccessBranch(e) ==
    IF hasComponent(m_components[e], ACCESS) THEN "set_before"
    ELSE IF m_type[e] # EDGE_MEMBER /\ m_type[e] # EDGE_INHERITANCE THEN "wrong_type"
    ELSE "attach"

\* Edge::addComponentAccess(component)
addComponentAccess(e, c) ==
    /\ e \in live
    /\ c.kind = ACCESS
    /\ m_components' =
            IF AccessBranch(e) = "attach"
            THEN [m_components EXCEPT ![e] = addComponent(@, c)]
            ELSE m_components
    /\ trace' =
            CASE AccessBranch(e) = "set_before" ->
                    << LogError(MSG_ACCESS_SET_BEFORE) >>
              [] AccessBranch(e) = "wrong_type" ->
                    << LogError(MSG_ACCESS_WRONG_TYPE) >>
              [] OTHER -> << >>
    /\ op' = Op("addComponentAccess", e, 0, m_type[e], m_from[e], m_to[e])
    /\ UNCHANGED <<nodeType, m_edges, m_type, m_from, m_to>>

\* Edge::checkType() const, called on a live edge
CheckType(e) ==
    /\ e \in live
    /\ trace' = checkTypeEvents(m_type[e], nodeType[m_from[e]], nodeType[m_to[e]])
    /\ op' = Op("checkType", e, 0, m_type[e], m_from[e], m_to[e])
    /\ UNCHANGED <<nodeType, m_edges, m_type, m_from, m_to, m_components>>

(* --------------------------- specifications -------------------------- *)

\* the kinds of the nodes of two graphs with the same shape: nodes that share
\* an id have the same kind
SampleNodeTypes ==
    [n \in Nodes |->
        CASE getId(n) = 1 -> NODE_CLASS
          [] getId(n) = 2 -> NODE_METHOD
          [] OTHER -> NODE_NAMESPACE]

\* the edge kind the producer of the graph specification draws: between the
\* sample nodes a Call edge passes the compatibility check from a method to a
\* method and fails it otherwise
SampleEdgeTypes == {EDGE_CALL}

Empty == [x \in {} |-> 0]

InitEdges ==
    /\ m_edges = [n \in Nodes |-> {}]
    /\ m_type = Empty
    /\ m_from = Empty
    /\ m_to = Empty
    /\ m_components = Empty
    /\ op = Op("none", 0, 0, "", 0, 0)
    /\ trace = << >>

Init ==
    /\ nodeType = SampleNodeTypes
    /\ InitEdges

Next ==
    \/ \E e \in EdgeIds, t \in SampleEdgeTypes, f \in Nodes, g \in Nodes : Edge(e, t, f, g)
    \/ \E e \in EdgeIds, o \in EdgeIds, f \in Nodes, g \in Nodes : EdgeCopy(e, o, f, g)
    \/ \E e \in EdgeIds : Destroy(e)
    \/ \E e \in EdgeIds, c \in Components : addComponentAggregation(e, c)
    \/ \E e \in EdgeIds, c \in Components : addComponentAccess(e, c)
    \/ \E e \in EdgeIds : CheckType(e)

Spec == Init /\ [][Next]_vars

(* Schema specification: one edge between node 1 and node 2, whose kinds   *)
(* range over all 14 x 14 pairs; the edge's kind ranges over all 15.       *)

InitSchema ==
    /\ nodeType \in { f \in [Nodes -> NodeTypes] :
                        \A n \in Nodes : n > 2 => f[n] = SampleNodeTypes[n] }
    /\ InitEdges

NextSchema ==
    \/ \E t \in EdgeTypes : Edge(1, t, 1, 2)
    \/ Destroy(1)
    \/ CheckType(1)

SpecSchema == InitSchema /\ [][NextSchema]_vars

(* Attachment specification: edges of all 15 kinds from node 1 to node 2,  *)
(* their clones onto the same nodes or onto the plain copies of the two,   *)
(* and every attachment a producer can try on them.                        *)

\* node 1 and node 2, and the nodes of the next graph that carry their ids
CloneTargets == { <<1, 2>>, <<1 + NumIds, 2 + NumIds>> }

NextAttach ==
    \/ \E e \in EdgeIds, t \in EdgeTypes : Edge(e, t, 1, 2)
    \/ \E e \in EdgeIds, o \in EdgeIds, p \in CloneTargets : EdgeCopy(e, o, p[1], p[2])
    \/ \E e \in EdgeIds : Destroy(e)
    \/ \E e \in EdgeIds, c \in Components : addComponentAggregation(e, c)
    \/ \E e \in EdgeIds, c \in Components : addComponentAccess(e, c)
    \/ \E e \in EdgeIds : CheckType(e)

SpecAttach == Init /\ [][NextAttach]_vars

(* ============================== claims =============================== *)

\* edge e is in the incidence set of both of its endpoints
Registered(e) == e \in m_edges[m_from[e]] /\ e \in m_edges[m_to[e]]

\* edge e is in the incidence set of both of its endpoints after the step
RegisteredAfter(e) == e \in m_edges'[m_from'[e]] /\ e \in m_edges'[m_to'[e]]

complexType == { NODE_UNDEFINED_TYPE, NODE_CLASS, NODE_STRUCT }
typeLike == { NODE_UNDEFINED, NODE_ENUM, NODE_TYPEDEF } \cup complexType
variableLike == { NODE_UNDEFINED, NODE_UNDEFINED_VARIABLE, NODE_GLOBAL_VARIABLE, NODE_FIELD }
functionLike == { NODE_UNDEFINED_FUNCTION, NODE_FUNCTION, NODE_METHOD }

\* the 'from must be' column of the schema table
TableFrom(type) ==
    CASE type = EDGE_MEMBER -> typeLike \cup {NODE_NAMESPACE}
      [] type = EDGE_TYPE_OF -> variableLike
      [] type \in {EDGE_RETURN_TYPE_OF, EDGE_PARAMETER_TYPE_OF, EDGE_TYPE_USAGE} -> functionLike
      [] type = EDGE_INHERITANCE -> complexType
      [] type = EDGE_OVERRIDE -> {NODE_UNDEFINED_FUNCTION, NODE_METHOD}
      [] type = EDGE_CALL -> variableLike \cup functionLike
      [] type = EDGE_USAGE -> functionLike
      [] type = EDGE_TYPEDEF_OF -> {NODE_TYPEDEF}
      [] type = EDGE_TEMPLATE_PARAMETER_OF -> {NODE_TEMPLATE_PARAMETER_TYPE}
      [] type \in {EDGE_TEMPLATE_ARGUMENT_OF, EDGE_TEMPLATE_DEFAULT_ARGUMENT_OF} -> typeLike
      [] type = EDGE_TEMPLATE_SPECIALIZATION_OF -> typeLike \cup functionLike
      [] type = EDGE_AGGREGATION -> typeLike \cup variableLike \cup functionLike

\* the 'to must be' column of the schema table
TableTo(type) ==
    CASE type = EDGE_MEMBER -> typeLike \cup {NODE_NAMESPACE}
      [] type = EDGE_TYPE_OF -> typeLike
      [] type \in {EDGE_RETURN_TYPE_OF, EDGE_PARAMETER_TYPE_OF, EDGE_TYPE_USAGE} -> typeLike
      [] type = EDGE_INHERITANCE -> complexType
      [] type = EDGE_OVERRIDE -> {NODE_UNDEFINED_FUNCTION, NODE_METHOD}
      [] type = EDGE_CALL -> functionLike
      [] type = EDGE_USAGE -> variableLike
      [] type = EDGE_TYPEDEF_OF -> typeLike
      [] type = EDGE_TEMPLATE_PARAMETER_OF -> typeLike \cup functionLike
      [] type \in {EDGE_TEMPLATE_ARGUMENT_OF, EDGE_TEMPLATE_DEFAULT_ARGUMENT_OF} -> typeLike
      [] type = EDGE_TEMPLATE_SPECIALIZATION_OF -> typeLike \cup functionLike
      [] type = EDGE_AGGREGATION -> typeLike \cup variableLike \cup functionLike

\* the 'extra constraint' column: TRUE when the pair is rejected by it
TableRejects(type, from, to) ==
    /\ type = EDGE_MEMBER
    /\ \/ to = NODE_NAMESPACE /\ from \notin {NODE_UNDEFINED, NODE_NAMESPACE}
       \/ from = NODE_ENUM /\ to # NODE_FIELD

\* the row of the table as written: both masks and the extra constraint
TableRow(type, from, to) ==
    /\ from \in TableFrom(type)
    /\ to \in TableTo(type)
    /\ ~TableRejects(type, from, to)

\* the row with the Member row's 'to must be' mask left out
TableRowAmended(type, from, to) ==
    /\ from \in TableFrom(type)
    /\ type # EDGE_MEMBER => to \in TableTo(type)
    /\ ~TableRejects(type, from, to)

\* what the compatibility check answered for the call recorded in op
Answered == Diagnostics(trace) = << >>

\* C2 as stated: the check answers true iff the pair satisfies its table row
C2_AsStated ==
    op.name \in {"Edge", "checkType"} =>
        (Answered <=> TableRow(op.type, nodeType[op.from], nodeType[op.to]))

\* C2. Schema table fidelity, amended: for each of the 15 edge kinds and every
\* pair of the 14 node kinds the check answers true iff the 'from must be' mask
\* holds, the 'to must be' mask holds for every kind but Member (whose to node
\* is not mask-tested), and no extra constraint of the Member row rejects.
C2_SchemaTableFidelity ==
    /\ op.name \in {"Edge", "checkType"} =>
        (Answered <=> TableRowAmended(op.type, nodeType[op.from], nodeType[op.to]))
    /\ \A e \in live :
        checkType(m_type[e], nodeType[m_from[e]], nodeType[m_to[e]])
            <=> TableRowAmended(m_type[e], nodeType[m_from[e]], nodeType[m_to[e]])

\* a Member edge from a class to one of its methods passes the check
C2_Witness ==
    /\ op.name = "checkType"
    /\ op.type = EDGE_MEMBER
    /\ nodeType[op.from] = NODE_CLASS
    /\ nodeType[op.to] = NODE_METHOD
    /\ Answered

\* C3. Non-fatal violation: right after Edge(kind, from, to) the edge is live
\* with that kind and those endpoints and registered on both; one diagnostic
\* was reported if the triple fails the compatibility check, none if it passes.
C3_NonFatalViolation ==
    op.name = "Edge" =>
        /\ op.edge \in live
        /\ m_type[op.edge] = op.type
        /\ m_from[op.edge] = op.from
        /\ m_to[op.edge] = op.to
        /\ Registered(op.edge)
        /\ IF checkType(op.type, nodeType[op.from], nodeType[op.to])
           THEN Diagnostics(trace) = << >>
           ELSE Diagnostics(trace) = << LogError(MSG_CANT_GO) >>

\* an Inheritance edge from a class to a method was constructed and reported
C3_Witness ==
    /\ op.name = "Edge"
    /\ op.type = EDGE_INHERITANCE
    /\ nodeType[op.from] = NODE_CLASS
    /\ nodeType[op.to] = NODE_METHOD
    /\ op.edge \in live
    /\ Registered(op.edge)
    /\ Len(Diagnostics(trace)) = 1

\* the number of components of kind k that edge e holds
Count(comps, k) == Cardinality({i \in 1..Len(comps) : comps[i].kind = k})

AtMostOneOfEach ==
    \A e \in live :
        /\ Count(m_components[e], ACCESS) <= 1
        /\ Count(m_components[e], AGGREGATION) <= 1

\* the component kind an attachment method attaches, and the edge kinds legal for it
Attaches(name) ==
    IF name = "addComponentAccess" THEN ACCESS ELSE AGGREGATION

LegalFor(k) ==
    IF k = ACCESS THEN {EDGE_MEMBER, EDGE_INHERITANCE} ELSE {EDGE_AGGREGATION}

AttachNames == {"addComponentAccess", "addComponentAggregation"}

\* C4. Attachment rejection is a no-op: a step of addComponentAccess or
\* addComponentAggregation on an edge that already holds a component of that
\* kind, or whose kind is not legal for it, reports one diagnostic and leaves
\* every edge's components as they were; and after every step each edge holds
\* at most one Access and at most one Aggregation component.
C4_AttachmentRejectionNoOp ==
    [][ /\ AtMostOneOfEach'
        /\ (op'.name \in AttachNames /\ op'.edge \in live) =>
              LET e == op'.edge
                  k == Attaches(op'.name)
              IN  (hasComponent(m_components[e], k) \/ m_type[e] \notin LegalFor(k)) =>
                      /\ Len(Diagnostics(trace')) = 1
                      /\ m_components' = m_components
      ]_vars

\* a second Aggregation component was offered to an Aggregation edge and
\* rejected; the edge holds the one it had
C4_Witness ==
    /\ op.name = "addComponentAggregation"
    /\ op.type = EDGE_AGGREGATION
    /\ Diagnostics(trace) = << LogError(MSG_AGGREGATION_SET_BEFORE) >>
    /\ Len(m_components[op.edge]) = 1
    /\ m_components[op.edge][1].kind = AGGREGATION

KindRestriction ==
    \A e \in live :
        /\ hasComponent(m_components[e], ACCESS) =>
                m_type[e] \in {EDGE_MEMBER, EDGE_INHERITANCE}
        /\ hasComponent(m_components[e], AGGREGATION) => m_type[e] = EDGE_AGGREGATION

\* C5. Component kind restriction: after every step an edge holding an Access
\* component is a Member or Inheritance edge and an edge holding an Aggregation
\* component is an Aggregation edge; and a step of an attachment method on an
\* edge that holds no component of its kind attaches one iff the edge's kind is
\* legal for it.
C5_ComponentKindRestriction ==
    [][ /\ KindRestriction'
        /\ (op'.name \in AttachNames /\ op'.edge \in live) =>
              LET e == op'.edge
                  k == Attaches(op'.name)
              IN  ~hasComponent(m_components[e], k) =>
                      (hasComponent(m_components'[e], k) <=> m_type[e] \in LegalFor(k))
      ]_vars

\* an Access component was offered to a Call edge and rejected
C5_Witness ==
    /\ op.name = "addComponentAccess"
    /\ op.type = EDGE_CALL
    /\ Diagnostics(trace) = << LogError(MSG_ACCESS_WRONG_TYPE) >>
    /\ m_components[op.edge] = << >>

\* the clone recorded in op went onto plain copies of the source's endpoints:
\* other node objects with the same ids
OntoPlainCopies ==
    /\ op.from # m_from[op.other]
    /\ op.to # m_to[op.other]
    /\ getId(op.from) = getId(m_from[op.other])
    /\ getId(op.to) = getId(m_to[op.other])

\* C6 as stated: a clone onto plain copies reports no diagnostic at all, any
\* other clone reports one
C6_AsStated ==
    op.name = "EdgeCopy" =>
        IF OntoPlainCopies THEN Diagnostics(trace) = << >>
        ELSE Diagnostics(trace) # << >>

\* C6. Clone identity check, amended: a clone onto plain copies does not report
\* "Nodes are not plain copies." (the compatibility check that follows still
\* reports its own diagnostic when the cloned triple fails it, and nothing else
\* is reported); any other clone reports "Nodes are not plain copies." first.
C6_CloneIdentityCheck ==
    op.name = "EdgeCopy" =>
        LET schema == IF checkType(op.type, nodeType[op.from], nodeType[op.to])
                      THEN << >> ELSE << LogError(MSG_CANT_GO) >>
        IN  IF OntoPlainCopies THEN Diagnostics(trace) = schema
            ELSE Diagnostics(trace) = << LogError(MSG_NOT_PLAIN_COPIES) >> \o schema

\* a valid edge was cloned onto plain copies of two distinct nodes, silently
C6_Witness ==
    /\ op.name = "EdgeCopy"
    /\ OntoPlainCopies
    /\ op.from # op.to
    /\ Diagnostics(trace) = << >>

\* C7. Clone result: a step of Edge(other, newFrom, newTo) makes a new edge
\* with the source's kind and components and with newFrom and newTo as its
\* endpoints, registered on both, whatever was reported; the source keeps its
\* kind, endpoints and components and stays registered on its endpoints.
C7_CloneResult ==
    [][ op'.name = "EdgeCopy" =>
            LET e == op'.edge
                o == op'.other
            IN  /\ e \notin live /\ o \in live
                /\ e \in live' /\ o \in live'
                /\ m_type'[e] = m_type[o]
                /\ m_components'[e] = m_components[o]
                /\ m_from'[e] = op'.from /\ m_to'[e] = op'.to
                /\ RegisteredAfter(e)
                /\ m_type'[o] = m_type[o]
                /\ m_from'[o] = m_from[o] /\ m_to'[o] = m_to[o]
                /\ m_components'[o] = m_components[o]
                /\ RegisteredAfter(o)
      ]_vars

\* an edge holding a component was cloned onto the source's own nodes, which
\* was reported, and the clone holds the component too
C7_Witness ==
    /\ op.name = "EdgeCopy"
    /\ LogError(MSG_NOT_PLAIN_COPIES) \in {trace[i] : i \in 1..Len(trace)}
    /\ m_components[op.edge] # << >>
    /\ m_components[op.edge] = m_components[op.other]

\* C8. Edge kind and endpoints are immutable: no step changes the kind, the
\* from node or the to node of an edge that is live before and after it, and
\* both endpoints are nodes throughout.
C8_KindAndEndpointsImmutable ==
    [][ \A e \in live \cap live' :
            /\ getType(e)' = getType(e)
            /\ getFrom(e)' = getFrom(e)
            /\ getTo(e)' = getTo(e)
            /\ getFrom(e)' \in Nodes /\ getTo(e)' \in Nodes
      ]_vars

\* an Aggregation component was offered to a Call edge, which is still a Call edge
C8_Witness ==
    /\ op.name = "addComponentAggregation"
    /\ op.edge \in live
    /\ op.type = EDGE_CALL
    /\ getType(op.edge) = EDGE_CALL

\* C9. Construction ordering: what either constructor did is, in order, the
\* registration with the from node, the registration with the to node, and
\* only then diagnostics; in the cloning constructor "Nodes are not plain
\* copies." comes before the compatibility check's diagnostic.  The edge is
\* therefore on both endpoints when any construction diagnostic is written.
C9_ConstructionOrdering ==
    op.name \in {"Edge", "EdgeCopy"} =>
        /\ Len(trace) >= 2
        /\ trace[1] = AddEdgeEv(op.from)
        /\ trace[2] = AddEdgeEv(op.to)
        /\ \A i \in 3..Len(trace) : trace[i].ev = "LOG_ERROR"
        /\ \A i, j \in 3..Len(trace) :
                (trace[i].msg = MSG_NOT_PLAIN_COPIES /\ trace[j].msg = MSG_CANT_GO) => i < j
        /\ Registered(op.edge)

\* a clone that reported both diagnostics
C9_Witness ==
    /\ op.name = "EdgeCopy"
    /\ Len(trace) = 4
    /\ trace[3].msg = MSG_NOT_PLAIN_COPIES
    /\ trace[4].msg = MSG_CANT_GO

\* C10. Destruction frame: a step that destroys edge e takes e out of the
\* incidence sets of e's endpoints and changes nothing else in any incidence
\* set, so every other live edge stays registered on both of its endpoints;
\* a step of the compatibility check or of an attachment method changes no
\* incidence set.
C10_DestructionFrame ==
    [][ /\ op'.name = "~Edge" =>
              LET e == op'.edge
              IN  /\ \A n \in Nodes \ {m_from[e], m_to[e]} : m_edges'[n] = m_edges[n]
                  /\ \A n \in {m_from[e], m_to[e]} : m_edges'[n] = m_edges[n] \ {e}
                  /\ \A x \in live \ {e} : x \in live' /\ RegisteredAfter(x)
        /\ op'.name \in AttachNames \cup {"checkType"} => m_edges' = m_edges
      ]_vars

\* an edge was destroyed while another edge between the same two nodes lives on
C10_Witness ==
    /\ op.name = "~Edge"
    /\ \E x \in live : m_from[x] = op.from /\ m_to[x] = op.to /\ Registered(x)

====
